---- MODULE Spec2Model ----
(***************************************************************************)
(* Habit tracker front end: the optimistic completion toggle of the habits *)
(* list view (src/pages/HabitsPage.tsx), the "today" key it works under,   *)
(* and the time-remaining computation (src/utils/timeUtils.ts).            *)
(*                                                                         *)
(* The query cache and the mutation lifecycle are the data-fetching        *)
(* library's: a mutation runs onMutate, then mutationFn, then onError (on  *)
(* rejection) and onSettled, each awaited in turn.  Steps that follow one  *)
(* another through awaits of already-resolved promises are microtasks:     *)
(* no click, response or mount is handled between them (Busy).             *)
(***************************************************************************)
EXTENDS Integers, Sequences, FiniteSets, TLC

\* ---------------------------------------------------------------- bounds
\* Habits the server can list, toggles the user makes, and times the user
\* leaves the habits route and comes back.
MaxHabits == 2
MaxToggles == 2
MaxRemounts == 1
MaxRevisits == 1

Habits == 1..MaxHabits
Mutations == 1..MaxToggles

\* ------------------------------------------------------- completion values
\* `comp.data?.[0]` when the server has no completion of the habit today,
\* and `item.completion` of such an entry: undefined.
NoCompletion == [exists |-> FALSE, completed |-> FALSE, date |-> "none"]

\* A HabitCompletion record as the server returns it.
ServerCompletion(completed) ==
  [exists |-> TRUE, completed |-> completed, date |-> "today"]

\* getQueryData of a key that holds no data: undefined.
NoData == [defined |-> FALSE, list |-> <<>>]

QueryData(list) == [defined |-> TRUE, list |-> list]

\* The query keys of the cache regions a toggle touches.
QueryKeys == {"all-habit-completions", "habits", "stats"}

VARIABLES
  habitsData,    \* habits.data of the view: the listed habit ids, in order
  server,        \* the backend's completion of each habit for today
  cache,         \* query data under ['all-habit-completions', today]
  fetch,         \* the in-flight queryFn of that key, if any
  invalidated,   \* isInvalidated of the three query keys
  mounted,       \* the habits list view is mounted
  current,       \* the mutation the view's observer tracks (0: none)
  mut,           \* the mutations, in the order of the toggles
  confetti,      \* number of triggerConfetti calls made for each mutation
  posted,        \* number of POST /habits/{id}/complete sent for each mutation
  remounts,      \* number of times the view was mounted again
  \* the "today" of the habits list view
  clock,         \* the instant, in hours since the epoch
  tzOffset,      \* the client's timezone: local time is UTC + tzOffset hours
  today,         \* `today` of the last render of the view (a day number)
  renderedAt,    \* the instant of that render
  sentDate,      \* `date` of the last POST /habits/{id}/complete body
  \* one call of calculateTimeRemaining
  deadlineMs,    \* new Date(deadline), in ms since the epoch
  nowMs,         \* `now = new Date()` of the call
  isPastNowMs,   \* Date.now() as isPast reads it, later in the call
  timePc,        \* "called" | "returned"
  timeRemaining, \* the TimeRemaining returned
  formatted,     \* formatTimeRemaining(timeRemaining), once called
  urgencyColor,  \* getTimeUrgencyColor(timeRemaining), once called
  badgeVariant,  \* getUrgencyBadgeVariant(timeRemaining), once called
  \* the API client and the authentication context
  storageMode,     \* local storage works ("ok"), refuses writes ("full") or
                   \* throws on every access ("blocked")
  localStorage,    \* the item 'auth_token' of local storage
  token,           \* this.token of the API client
  requests,        \* the calls of ApiClient.request under way
  isAuthenticated, \* isAuthenticated of AuthProvider
  currentUser,     \* the query ['currentUser']: has data, has an error
  effectDue,       \* a dependency of the effect of AuthProvider has changed
  \* the completion mutations of the views, the groups of the habits list
  queryCache,      \* isInvalidated of each cached query
  viewMutation,    \* the completion mutation under way: its view and status
  listedHabits,    \* habits.data of the habits list view, as the grouping reads it
  groups           \* the four groups of the last render

toggleVars ==
  <<habitsData, server, cache, fetch, invalidated, mounted, current,
    mut, confetti, posted, remounts>>

dateVars == <<clock, tzOffset, today, renderedAt, sentDate>>

timeVars ==
  <<deadlineMs, nowMs, isPastNowMs, timePc, timeRemaining,
    formatted, urgencyColor, badgeVariant>>

apiVars ==
  <<storageMode, localStorage, token, requests, isAuthenticated, currentUser, effectDue>>

viewVars == <<queryCache, viewMutation, listedHabits, groups>>

vars == <<toggleVars, dateVars, timeVars, apiVars, viewVars>>

\* ------------------------------------------------------------ pure helpers
RECURSIVE SeqFind(_, _, _)
\* Index of the first entry of list, from i on, whose habitId is habitId; 0 if none
\* (Array.prototype.find).
SeqFind(list, habitId, i) ==
  IF i > Len(list) THEN 0
  ELSE IF list[i].habitId = habitId THEN i
  ELSE SeqFind(list, habitId, i + 1)

find(list, habitId) == SeqFind(list, habitId, 1)

\* isHabitCompletedToday: completion?.completion?.completed || false
isHabitCompletedToday(data, habitId) ==
  IF ~data.defined THEN FALSE
  ELSE LET i == find(data.list, habitId)
       IN  IF i = 0 THEN FALSE
           ELSE data.list[i].completion.exists /\ data.list[i].completion.completed

\* The buttons a card can show: Undo (completed = false) only for a habit of
\* completedHabits (active and completed today); Complete (completed = true) for
\* a habit of the other groups: not completed today, or archived.  isActive is
\* the server's and changes with the Archive menu item, so a habit that is
\* completed today can show either button.
ButtonShown(data, habitId, completed) ==
  completed \/ isHabitCompletedToday(data, habitId)

\* { ...item, completion: { ...item.completion, completed } }
PatchItem(item, completed) ==
  [item EXCEPT !.completion = [item.completion EXCEPT !.exists = TRUE,
                                                      !.completed = completed]]

\* { habitId, completion: { completed, date: today } }
NewItem(habitId, completed) ==
  [habitId |-> habitId,
   completion |-> [exists |-> TRUE, completed |-> completed, date |-> "today"]]

\* A mutant of the updater: pushes the new entry without looking for an old one.
UpdaterAlwaysPush(old, habitId, completed) ==
  IF ~old.defined THEN old
  ELSE QueryData(Append(
         [i \in 1..Len(old.list) |->
            IF old.list[i].habitId = habitId
            THEN PatchItem(old.list[i], completed) ELSE old.list[i]],
         NewItem(habitId, completed)))

\* A mutant of the updater: replaces the whole completion of the entry.
UpdaterDropsFields(old, habitId, completed) ==
  IF ~old.defined THEN old
  ELSE LET updatedCompletions ==
             [i \in 1..Len(old.list) |->
                IF old.list[i].habitId = habitId
                THEN NewItem(habitId, completed) ELSE old.list[i]]
       IN  IF find(old.list, habitId) = 0
           THEN QueryData(Append(updatedCompletions, NewItem(habitId, completed)))
           ELSE QueryData(updatedCompletions)

\* The setQueryData updater of onMutate.
Updater(old, habitId, completed) ==
  IF ~old.defined THEN old
  ELSE LET updatedCompletions ==
             [i \in 1..Len(old.list) |->
                IF old.list[i].habitId = habitId
                THEN PatchItem(old.list[i], completed) ELSE old.list[i]]
       IN  IF find(old.list, habitId) = 0
           THEN QueryData(Append(updatedCompletions, NewItem(habitId, completed)))
           ELSE QueryData(updatedCompletions)

\* A mutant of onError: undoes only the toggled habit's entry in the current data.
RollbackPartial(data, variables, context) ==
  IF ~context.previousCompletions.defined \/ ~data.defined THEN data
  ELSE LET prev == context.previousCompletions.list
           j == find(prev, variables.habitId)
       IN  QueryData([i \in 1..Len(data.list) |->
             IF data.list[i].habitId = variables.habitId /\ j # 0
             THEN prev[j] ELSE data.list[i]])

\* onError: the query data after the rollback.
Rollback(data, variables, context) ==
  IF context.previousCompletions.defined
  THEN context.previousCompletions
  ELSE data

\* A mutant of onMutate: the snapshot is read after the speculative write.
SnapshotAfterWrite(before, after) == after

\* onMutate: `previousCompletions = getQueryData(...)` stands before setQueryData.
SnapshotOf(before, after) == before

\* A mutant of onMutate: confetti for every toggle.
ConfettiAlways(completed) == TRUE

\* onMutate: `if (completed) triggerConfetti()`.
ConfettiOnMutate(completed) == completed

\* A mutant of onSettled: the statistics key is forgotten.
SettledKeysNoStats == {"all-habit-completions", "habits"}

\* The keys onSettled passes to invalidateQueries.
SettledKeys == {"all-habit-completions", "habits", "stats"}

\* A mutant of onSettled: the invalidation sits in onSuccess.
InvalidatedAfterSuccessOnly(outcome) == IF outcome = "ok" THEN SettledKeys ELSE {}

\* The keys invalidated once the call has resolved ("ok") or rejected and
\* been rolled back ("errored"): onSettled runs after both.
InvalidatedAfter(outcome) == SettledKeys

\* A mutant: the cache is written when the call settles, not in onMutate.
WriteInOnSettled(callback) == callback = "onSettled"

\* The callback of completeHabitMutation that holds the speculative setQueryData.
SpeculativeWriteIn(callback) == callback = "onMutate"

\* A mutant of the retry option: a failed request is sent once more.
ShouldRetryOnce(failureCount) == failureCount < 1

\* Whether a rejected mutationFn is called again: useMutation is given no
\* retry option, and mutations do not retry unless told to.
ShouldRetry(failureCount) == FALSE

\* ------------------------------------------------------------------- fetch
NoFetch == [active |-> FALSE, got |-> FALSE, habits |-> <<>>, res |-> <<>>]

\* queryFn starts: one GET per habit of habits.data, sent together, none answered.
StartFetch(habits) ==
  [active |-> TRUE, got |-> FALSE, habits |-> habits,
   res |-> [i \in 1..Len(habits) |-> NoCompletion]]

\* completions.map((comp, index) => ({ habitId: habits.data[index].id,
\*                                      completion: comp.data?.[0] }))
QueryFnResult(f) ==
  [i \in 1..Len(f.habits) |-> [habitId |-> f.habits[i], completion |-> f.res[i]]]

\* ----------------------------------------------------------- mutation state
NoContext == [previousCompletions |-> NoData]

\* A toggle not made yet.
IdleMutation ==
  [pc |-> "idle", habitId |-> 0, completed |-> FALSE, context |-> NoContext,
   wrote |-> FALSE]

\* A mutant of the pending state: over once the request is sent.
InFlightUntilSent(m) == mut[m].pc \in {"onMutate", "mutationFn"}

\* The mutation is pending: from mutate until onSettled has run.
InFlight(m) == mut[m].pc \in {"onMutate", "mutationFn", "sent", "ok", "err", "errored"}

\* A mutation is between two awaits that resolve at once: its next callback runs
\* before any other task.
Busy == \E m \in Mutations : mut[m].pc \in {"onMutate", "mutationFn", "errored"}

\* completeHabitMutation.isPending of the mounted view's observer.
isPending == current # 0 /\ InFlight(current)

Listed(h) == \E i \in 1..Len(habitsData) : habitsData[i] = h

\* The next toggle takes the first unused mutation.
FreeSlot(m) ==
  /\ mut[m].pc = "idle"
  /\ \A n \in Mutations : n < m => mut[n].pc # "idle"

\* ----------------------------------------------------------------- Init
\* The view has just mounted on a day without completions: the habits are
\* loaded and the completions query is fetching for the first time.
ToggleInit ==
  /\ habitsData = <<1>>
  /\ server = [h \in Habits |-> NoCompletion]
  /\ cache = NoData
  /\ fetch = StartFetch(habitsData)
  /\ invalidated = [k \in QueryKeys |-> FALSE]
  /\ mounted = TRUE
  /\ current = 0
  /\ mut = [m \in Mutations |-> IdleMutation]
  /\ confetti = [m \in Mutations |-> 0]
  /\ posted = [m \in Mutations |-> 0]
  /\ remounts = 0


\* --------------------------------------------------------------- actions
\* handleCompleteHabit -> completeHabitMutation.mutate: a click on the Complete
\* or Undo button of a listed habit; the button is disabled while isPending.
handleCompleteHabit(m, habitId, completed) ==
  /\ mounted /\ ~Busy /\ ~isPending
  /\ Listed(habitId)
  /\ ButtonShown(cache, habitId, completed)
  /\ FreeSlot(m)
  /\ mut' = [mut EXCEPT ![m] =
       [IdleMutation EXCEPT !.pc = "onMutate", !.habitId = habitId,
                            !.completed = completed]]
  /\ current' = m
  /\ UNCHANGED <<dateVars, timeVars, apiVars, viewVars>>
  /\ UNCHANGED <<habitsData, server, cache, fetch, invalidated, mounted, confetti,
                 posted, remounts>>

\* onMutate: cancelQueries, snapshot, speculative write, confetti.
OnMutate(m) ==
  /\ mut[m].pc = "onMutate"
  /\ fetch' = NoFetch
  /\ cache' = IF SpeculativeWriteIn("onMutate")
              THEN Updater(cache, mut[m].habitId, mut[m].completed)
              ELSE cache
  /\ mut' = [mut EXCEPT
       ![m].pc = "mutationFn",
       ![m].context = [previousCompletions |-> SnapshotOf(cache, cache')],
       ![m].wrote = SpeculativeWriteIn("onMutate")]
  /\ confetti' = [confetti EXCEPT ![m] =
       IF ConfettiOnMutate(mut[m].completed) THEN @ + 1 ELSE @]
  /\ UNCHANGED <<dateVars, timeVars, apiVars, viewVars>>
  /\ UNCHANGED <<habitsData, server, invalidated, mounted, current, posted, remounts>>

\* mutationFn: api.completeHabit(habitId, { date: today, completed }), one POST.
MutationFn(m) ==
  /\ mut[m].pc = "mutationFn"
  /\ mut' = [mut EXCEPT ![m].pc = "sent"]
  /\ posted' = [posted EXCEPT ![m] = @ + 1]
  /\ UNCHANGED <<dateVars, timeVars, apiVars, viewVars>>
  /\ UNCHANGED <<habitsData, server, cache, fetch, invalidated, mounted,
                 current, confetti, remounts>>

\* The backend records the completion and answers 2xx.
ServerApply(m) ==
  /\ ~Busy
  /\ mut[m].pc = "sent"
  /\ server' = [server EXCEPT ![mut[m].habitId] = ServerCompletion(mut[m].completed)]
  /\ mut' = [mut EXCEPT ![m].pc = "ok"]
  /\ UNCHANGED <<dateVars, timeVars, apiVars, viewVars>>
  /\ UNCHANGED <<habitsData, cache, fetch, invalidated, mounted, current,
                 confetti, posted, remounts>>

\* The request fails (non-2xx answer, or no answer): request() rejects, and
\* the mutation fails unless it is to retry.
ServerReject(m) ==
  /\ ~Busy
  /\ mut[m].pc = "sent"
  /\ mut' = [mut EXCEPT ![m].pc = IF ShouldRetry(posted[m] - 1) THEN "mutationFn" ELSE "err"]
  /\ UNCHANGED <<dateVars, timeVars, apiVars, viewVars>>
  /\ UNCHANGED <<habitsData, server, cache, fetch, invalidated, mounted,
                 current, confetti, posted, remounts>>

\* onError: rollback to the snapshot of onMutate.
OnError(m) ==
  /\ ~Busy
  /\ mut[m].pc = "err"
  /\ cache' = Rollback(cache, [habitId |-> mut[m].habitId, completed |-> mut[m].completed],
                       mut[m].context)
  /\ mut' = [mut EXCEPT ![m].pc = "errored"]
  /\ UNCHANGED <<dateVars, timeVars, apiVars, viewVars>>
  /\ UNCHANGED <<habitsData, server, fetch, invalidated, mounted, current,
                 confetti, posted, remounts>>

\* onSettled: invalidateQueries of the three keys; an invalidated query that is
\* shown (the view is mounted) drops its running fetch and starts a new one.
\* No ['stats'] query is shown by this view: that key stays invalidated.
\* Nothing reads the variables or the context of a settled mutation.
OnSettled(m) ==
  /\ \/ mut[m].pc = "errored"
     \/ mut[m].pc = "ok" /\ ~Busy
  /\ invalidated' = [k \in QueryKeys |->
                       IF k \in InvalidatedAfter(mut[m].pc) THEN TRUE ELSE invalidated[k]]
  /\ fetch' = IF mounted /\ "all-habit-completions" \in InvalidatedAfter(mut[m].pc)
              THEN StartFetch(habitsData) ELSE fetch
  /\ cache' = IF SpeculativeWriteIn("onSettled")
              THEN Updater(cache, mut[m].habitId, mut[m].completed)
              ELSE cache
  /\ mut' = [mut EXCEPT ![m] =
       [IdleMutation EXCEPT !.pc = "settled", !.completed = mut[m].completed,
                            !.wrote = mut[m].wrote \/ SpeculativeWriteIn("onSettled")]]
  /\ current' = IF current = m THEN 0 ELSE current
  /\ UNCHANGED <<dateVars, timeVars, apiVars, viewVars>>
  /\ UNCHANGED <<habitsData, server, mounted, confetti, posted, remounts>>

\* The GETs /habits/{id}/completions of the running queryFn, sent together,
\* are answered together from the backend's state.
FetchAnswered ==
  /\ ~Busy
  /\ fetch.active
  /\ ~fetch.got
  /\ fetch' = [fetch EXCEPT !.got = TRUE,
                            !.res = [i \in 1..Len(fetch.habits) |-> server[fetch.habits[i]]]]
  /\ UNCHANGED <<dateVars, timeVars, apiVars, viewVars>>
  /\ UNCHANGED <<habitsData, server, cache, invalidated, mounted, current,
                 mut, confetti, posted, remounts>>

\* Promise.all resolved: the query data is replaced by the queryFn result.
FetchComplete ==
  /\ ~Busy
  /\ fetch.active
  /\ fetch.got
  /\ cache' = QueryData(QueryFnResult(fetch))
  /\ fetch' = NoFetch
  /\ invalidated' = [invalidated EXCEPT !["all-habit-completions"] = FALSE]
  /\ UNCHANGED <<dateVars, timeVars, apiVars, viewVars>>
  /\ UNCHANGED <<habitsData, server, mounted, current, mut, confetti, posted, remounts>>

\* The user leaves the habits route: the view and its mutation observer go away;
\* mutations and fetches already started go on.
Unmount ==
  /\ ~Busy
  /\ mounted
  /\ remounts < MaxRemounts
  /\ mounted' = FALSE
  /\ current' = 0
  /\ UNCHANGED <<dateVars, timeVars, apiVars, viewVars>>
  /\ UNCHANGED <<habitsData, server, cache, fetch, invalidated, mut,
                 confetti, posted, remounts>>

\* The user leaves the habits route once more, after MaxRemounts returns.
UnmountAgain ==
  /\ ~Busy
  /\ mounted
  /\ MaxRemounts <= remounts /\ remounts < MaxRemounts + MaxRevisits
  /\ mounted' = FALSE
  /\ current' = 0
  /\ UNCHANGED <<dateVars, timeVars, apiVars, viewVars>>
  /\ UNCHANGED <<habitsData, server, cache, fetch, invalidated, mut,
                 confetti, posted, remounts>>

\* The user comes back: a new view with a new (idle) mutation observer; the
\* completions query, stale or without data, fetches unless it is fetching.
Mount ==
  /\ ~Busy
  /\ ~mounted
  /\ remounts' = remounts + 1
  /\ mounted' = TRUE
  /\ current' = 0
  /\ fetch' = IF fetch.active THEN fetch ELSE StartFetch(habitsData)
  /\ UNCHANGED <<dateVars, timeVars, apiVars, viewVars>>
  /\ UNCHANGED <<habitsData, server, cache, invalidated, mut, confetti, posted>>

\* The ['habits'] query refetches and the list has gained a habit (created
\* in a dialog, or on another device).
HabitsRefetched ==
  /\ ~Busy
  /\ mounted
  /\ Len(habitsData) < MaxHabits
  /\ habitsData' = Append(habitsData, Len(habitsData) + 1)
  /\ invalidated' = [invalidated EXCEPT !["habits"] = FALSE]
  /\ UNCHANGED <<dateVars, timeVars, apiVars, viewVars>>
  /\ UNCHANGED <<server, cache, fetch, mounted, current, mut, confetti,
                 posted, remounts>>

ToggleNext ==
  \/ \E m \in Mutations, h \in Habits, c \in BOOLEAN : handleCompleteHabit(m, h, c)
  \/ \E m \in Mutations : OnMutate(m)
  \/ \E m \in Mutations : MutationFn(m)
  \/ \E m \in Mutations : ServerApply(m)
  \/ \E m \in Mutations : ServerReject(m)
  \/ \E m \in Mutations : OnError(m)
  \/ \E m \in Mutations : OnSettled(m)
  \/ FetchAnswered
  \/ FetchComplete
  \/ Unmount
  \/ Mount
  \/ HabitsRefetched

\* ----------------------------------------------------------- "today"
\* Hours the clock runs on after the first instant.
MaxClockHours == 48

HoursPerDay == 24

\* The first instant: the start of day 1 (UTC).
FirstInstant == HoursPerDay

\* Timezones of the client, in hours east of UTC.
TzOffsets == {-8, -5, 0, 1, 9}

\* No render of the view yet, no request sent yet.
NoDate == -1

\* Date.prototype.toISOString: the UTC calendar date and the UTC time of day
\* of the instant ("YYYY-MM-DDTHH:mm:ss.sssZ"); the date as a day number.
toISOString(instant) ==
  [date |-> instant \div HoursPerDay, time |-> instant % HoursPerDay]

\* `.split('T')[0]` of an ISO string: the part before the "T".
SplitT0(iso) == iso.date

\* today = new Date().toISOString().split('T')[0]
Today(instant) == SplitT0(toISOString(instant))

DateIdle ==
  /\ clock = FirstInstant
  /\ tzOffset = 0
  /\ today = NoDate
  /\ renderedAt = FirstInstant
  /\ sentDate = NoDate

DateInit ==
  /\ clock = FirstInstant
  /\ tzOffset \in TzOffsets
  /\ today = NoDate
  /\ renderedAt = FirstInstant
  /\ sentDate = NoDate

ClockTick ==
  /\ clock < FirstInstant + MaxClockHours
  /\ clock' = clock + 1
  /\ UNCHANGED <<tzOffset, today, renderedAt, sentDate>>
  /\ UNCHANGED <<toggleVars, timeVars, apiVars, viewVars>>

\* A render of HabitsPage computes `today`; the query key and the date of an
\* appended entry are this value.
RenderHabitsPage ==
  /\ today' = Today(clock)
  /\ renderedAt' = clock
  /\ UNCHANGED <<clock, tzOffset, sentDate>>
  /\ UNCHANGED <<toggleVars, timeVars, apiVars, viewVars>>

\* mutationFn: api.completeHabit(habitId, {date: today, completed}).
SendCompleteHabit ==
  /\ today # NoDate
  /\ sentDate' = today
  /\ UNCHANGED <<clock, tzOffset, today, renderedAt>>
  /\ UNCHANGED <<toggleVars, timeVars, apiVars, viewVars>>

DateNext == ClockTick \/ RenderHabitsPage \/ SendCompleteHabit

\* ------------------------------------------------------ time remaining
\* Whole days a deadline lies from now, at most; and milliseconds that pass,
\* at most, between the two clock reads of a call.
MaxDays == 3
MaxLagMs == 2

MsPerSecond == 1000
MsPerMinute == 60 * MsPerSecond
MsPerHour == 60 * MsPerMinute
MsPerDay == 24 * MsPerHour
MinutesPerDay == 24 * 60

\* The instant of `now = new Date()`.
NowInstant == (MaxDays + 2) * MsPerDay

\* Distances of the deadline from now: d days, h hours, m minutes, s seconds
\* and ms milliseconds, before or after.
DeadlineDistances ==
  { sign * (d * MsPerDay + h * MsPerHour + m * MsPerMinute + sec * MsPerSecond + ms) :
      sign \in {-1, 1}, d \in 0..MaxDays, h \in {0, 1, 23}, m \in {0, 1, 59},
      sec \in {0, 1, 59}, ms \in {0, 1, 999} }

\* Division rounding toward zero (date-fns rounds the differences with trunc).
Trunc(a, b) == IF a >= 0 THEN a \div b ELSE -((-a) \div b)

\* The remainder operator of JavaScript: the sign of the dividend.
JsRem(a, b) == IF a >= 0 THEN a % b ELSE -((-a) % b)

\* date-fns isFuture, the opposite test: a mutant of isPast.
isFuture(date, dateNow) == date > dateNow

\* date-fns isPast: the date is before Date.now().
isPast(date, dateNow) == date < dateNow

differenceInMinutes(later, earlier) == Trunc(later - earlier, MsPerMinute)

differenceInSeconds(later, earlier) == Trunc(later - earlier, MsPerSecond)

NoTimeRemaining ==
  [days |-> 0, hours |-> 0, minutes |-> 0, seconds |-> 0,
   isOverdue |-> FALSE, totalMinutes |-> 0]

\* A mutant of calculateTimeRemaining: the hours are not reduced to the day.
calculateTimeRemainingHoursOfTotal(deadline, now, dateNow) ==
  IF isPast(deadline, dateNow)
  THEN [days |-> 0, hours |-> 0, minutes |-> 0, seconds |-> 0,
        isOverdue |-> TRUE, totalMinutes |-> 0]
  ELSE LET totalMinutes == differenceInMinutes(deadline, now)
       IN  [days |-> totalMinutes \div MinutesPerDay,
            hours |-> totalMinutes \div 60,
            minutes |-> JsRem(totalMinutes, 60),
            seconds |-> JsRem(differenceInSeconds(deadline, now), 60),
            isOverdue |-> FALSE,
            totalMinutes |-> totalMinutes]

calculateTimeRemaining(deadline, now, dateNow) ==
  IF isPast(deadline, dateNow)
  THEN [days |-> 0, hours |-> 0, minutes |-> 0, seconds |-> 0,
        isOverdue |-> TRUE, totalMinutes |-> 0]
  ELSE LET totalMinutes == differenceInMinutes(deadline, now)
       IN  [days |-> totalMinutes \div MinutesPerDay,
            hours |-> JsRem(totalMinutes, MinutesPerDay) \div 60,
            minutes |-> JsRem(totalMinutes, 60),
            seconds |-> JsRem(differenceInSeconds(deadline, now), 60),
            isOverdue |-> FALSE,
            totalMinutes |-> totalMinutes]

\* The result of a function not called yet, and of one that returned.
NotCalled == [called |-> FALSE, value |-> ""]

Returned(value) == [called |-> TRUE, value |-> value]

\* A mutant of formatTimeRemaining: no special case of one day.
formatTimeRemainingNoDayCase(t) ==
  IF t.isOverdue THEN "Overdue"
  ELSE IF t.days > 0 THEN ToString(t.days) \o "d " \o ToString(t.hours) \o "h"
  ELSE IF t.hours > 0 THEN ToString(t.hours) \o "h " \o ToString(t.minutes) \o "m"
  ELSE IF t.minutes > 0 THEN ToString(t.minutes) \o "m " \o ToString(t.seconds) \o "s"
  ELSE ToString(t.seconds) \o "s"

\* A mutant of formatTimeRemaining: nothing is shown of zero seconds.
formatTimeRemainingHidesZero(t) ==
  IF t.isOverdue THEN "Overdue"
  ELSE IF t.days > 0
       THEN IF t.days = 1
            THEN ToString(t.hours) \o "h " \o ToString(t.minutes) \o "m"
            ELSE ToString(t.days) \o "d " \o ToString(t.hours) \o "h"
  ELSE IF t.hours > 0 THEN ToString(t.hours) \o "h " \o ToString(t.minutes) \o "m"
  ELSE IF t.minutes > 0 THEN ToString(t.minutes) \o "m " \o ToString(t.seconds) \o "s"
  ELSE IF t.seconds > 0 THEN ToString(t.seconds) \o "s"
  ELSE ""

\* Template literals: numbers are written in decimal.
formatTimeRemaining(t) ==
  IF t.isOverdue THEN "Overdue"
  ELSE IF t.days > 0
       THEN IF t.days = 1
            THEN ToString(t.hours) \o "h " \o ToString(t.minutes) \o "m"
            ELSE ToString(t.days) \o "d " \o ToString(t.hours) \o "h"
  ELSE IF t.hours > 0 THEN ToString(t.hours) \o "h " \o ToString(t.minutes) \o "m"
  ELSE IF t.minutes > 0 THEN ToString(t.minutes) \o "m " \o ToString(t.seconds) \o "s"
  ELSE ToString(t.seconds) \o "s"

\* A mutant of getTimeUrgencyColor: the thresholds are exclusive.
getTimeUrgencyColorExclusive(t) ==
  IF t.isOverdue THEN "text-red-500"
  ELSE IF t.totalMinutes < 60 THEN "text-red-500"
  ELSE IF t.totalMinutes < 24 * 60 THEN "text-orange-500"
  ELSE IF t.totalMinutes < 3 * 24 * 60 THEN "text-yellow-600"
  ELSE "text-green-600"

\* A mutant of getTimeUrgencyColor: yellow from one hour up to three days.
getTimeUrgencyColorNoDayTier(t) ==
  IF t.isOverdue THEN "text-red-500"
  ELSE IF t.totalMinutes <= 60 THEN "text-red-500"
  ELSE IF t.totalMinutes <= 3 * 24 * 60 THEN "text-yellow-600"
  ELSE "text-green-600"

getTimeUrgencyColor(t) ==
  IF t.isOverdue THEN "text-red-500"
  ELSE IF t.totalMinutes <= 60 THEN "text-red-500"
  ELSE IF t.totalMinutes <= 24 * 60 THEN "text-orange-500"
  ELSE IF t.totalMinutes <= 3 * 24 * 60 THEN "text-yellow-600"
  ELSE "text-green-600"

\* A mutant of getUrgencyBadgeVariant: the thresholds are exclusive.
getUrgencyBadgeVariantExclusive(t) ==
  IF t.isOverdue \/ t.totalMinutes < 60 THEN "destructive"
  ELSE IF t.totalMinutes < 24 * 60 THEN "default"
  ELSE "secondary"

getUrgencyBadgeVariant(t) ==
  IF t.isOverdue \/ t.totalMinutes <= 60 THEN "destructive"
  ELSE IF t.totalMinutes <= 24 * 60 THEN "default"
  ELSE "secondary"

TimeIdle ==
  /\ deadlineMs = NowInstant
  /\ nowMs = NowInstant
  /\ isPastNowMs = NowInstant
  /\ timePc = "called"
  /\ timeRemaining = NoTimeRemaining
  /\ formatted = NotCalled
  /\ urgencyColor = NotCalled
  /\ badgeVariant = NotCalled

TimeInit ==
  /\ nowMs = NowInstant
  /\ deadlineMs \in { NowInstant + dist : dist \in DeadlineDistances }
  /\ isPastNowMs \in { NowInstant + lag : lag \in 0..MaxLagMs }
  /\ timePc = "called"
  /\ timeRemaining = NoTimeRemaining
  /\ formatted = NotCalled
  /\ urgencyColor = NotCalled
  /\ badgeVariant = NotCalled

\* Minutes around the thresholds of the urgency tiers that are tried.
MaxNear == 1

TotalMinutesValues ==
  { t + d : t \in {0, 60, 24 * 60, 3 * 24 * 60}, d \in -MaxNear..MaxNear } \cap Nat

\* TimeRemaining values, those no call of calculateTimeRemaining gives included.
TimeRemainingValues ==
  [days : 0..MaxDays, hours : {0, 1, 23}, minutes : {0, 1, 59}, seconds : {0, 1, 59},
   isOverdue : BOOLEAN, totalMinutes : TotalMinutesValues]

\* A TimeRemaining handed to the formatting and urgency functions.
FormatInit ==
  /\ deadlineMs = NowInstant
  /\ nowMs = NowInstant
  /\ isPastNowMs = NowInstant
  /\ timePc = "returned"
  /\ timeRemaining \in TimeRemainingValues
  /\ formatted = NotCalled
  /\ urgencyColor = NotCalled
  /\ badgeVariant = NotCalled

CalculateTimeRemaining ==
  /\ timePc = "called"
  /\ timeRemaining' = calculateTimeRemaining(deadlineMs, nowMs, isPastNowMs)
  /\ timePc' = "returned"
  /\ UNCHANGED <<deadlineMs, nowMs, isPastNowMs, formatted, urgencyColor, badgeVariant>>
  /\ UNCHANGED <<toggleVars, dateVars, apiVars, viewVars>>

FormatTimeRemaining ==
  /\ timePc = "returned"
  /\ ~formatted.called
  /\ formatted' = Returned(formatTimeRemaining(timeRemaining))
  /\ UNCHANGED <<deadlineMs, nowMs, isPastNowMs, timePc, timeRemaining,
                 urgencyColor, badgeVariant>>
  /\ UNCHANGED <<toggleVars, dateVars, apiVars, viewVars>>

GetTimeUrgencyColor ==
  /\ timePc = "returned"
  /\ ~urgencyColor.called
  /\ urgencyColor' = Returned(getTimeUrgencyColor(timeRemaining))
  /\ UNCHANGED <<deadlineMs, nowMs, isPastNowMs, timePc, timeRemaining,
                 formatted, badgeVariant>>
  /\ UNCHANGED <<toggleVars, dateVars, apiVars, viewVars>>

GetUrgencyBadgeVariant ==
  /\ timePc = "returned"
  /\ ~badgeVariant.called
  /\ badgeVariant' = Returned(getUrgencyBadgeVariant(timeRemaining))
  /\ UNCHANGED <<deadlineMs, nowMs, isPastNowMs, timePc, timeRemaining,
                 formatted, urgencyColor>>
  /\ UNCHANGED <<toggleVars, dateVars, apiVars, viewVars>>

FormatNext == FormatTimeRemaining \/ GetTimeUrgencyColor \/ GetUrgencyBadgeVariant

TimeNext == CalculateTimeRemaining \/ FormatNext

\* ------------------------------------------- API client, authentication
\* Calls of ApiClient.request that can be under way together.
MaxRequests == 2

Requests == 1..MaxRequests

\* Bearer tokens: the one an earlier session may have left in local storage
\* and the one the server issues now; this.token = null.
StoredToken == "t1"
IssuedToken == "t2"
Tokens == {StoredToken, IssuedToken}
NoToken == "null"

StorageModes == {"ok", "full", "blocked"}

\* Statuses of the responses; response.ok is a status of 200 to 299.
Statuses == {200, 401, 403, 500}

ResponseOk(status) == status \in 200..299

ServerMessages == {"Invalid credentials"}

NoBody == [kind |-> "none", message |-> "", token |-> NoToken]

\* Bodies of the responses: JSON with data (a token, for the auth endpoints),
\* JSON with a message, JSON with neither, JSON null, and text that is no JSON.
Bodies ==
  { [kind |-> "json-data", message |-> "", token |-> IssuedToken] }
    \cup { [kind |-> "json-message", message |-> m, token |-> NoToken] : m \in ServerMessages }
    \cup { [kind |-> k, message |-> "", token |-> NoToken] :
             k \in {"json-no-message", "json-null", "not-json"} }

NoHeader == [present |-> FALSE, value |-> ""]

\* A mutant of the Authorization header: the token without the scheme.
AuthorizationHeaderNoScheme(t) ==
  IF t # NoToken THEN [present |-> TRUE, value |-> t] ELSE NoHeader

\* ...(this.token && { Authorization: `Bearer ${this.token}` })
AuthorizationHeader(t) ==
  IF t # NoToken THEN [present |-> TRUE, value |-> "Bearer " \o t] ELSE NoHeader

\* localStorage.getItem('auth_token') in a try whose catch gives null / false.
GetStoredToken == IF storageMode = "blocked" THEN NoToken ELSE localStorage

\* The item after localStorage.setItem('auth_token', t) in its try.
StoredAfterSet(t) == IF storageMode = "ok" THEN t ELSE localStorage

\* A mutant of removeToken: the item stays in local storage.
StoredAfterRemoveKeeps == localStorage

\* The item after localStorage.removeItem('auth_token') in its try.
StoredAfterRemove == IF storageMode = "blocked" THEN localStorage ELSE NoToken

\* try { data = await response.json() } catch { data = { message: 'Server error' } }
ResponseJson(body) ==
  IF body.kind = "not-json"
  THEN [kind |-> "json-message", message |-> "Server error", token |-> NoToken]
  ELSE body

\* A mutant of the error message: the same literal for every body.
ErrorMessageGeneric(data) == "An error occurred"

\* The message of the error request throws: data.message || 'An error occurred'
\* (of data = null, the TypeError of reading data.message).
ErrorMessage(data) ==
  IF data.kind = "json-null" THEN "TypeError"
  ELSE IF data.kind = "json-message" /\ data.message # "" THEN data.message
  ELSE "An error occurred"

\* response.status === 401 || response.status === 403
IsAuthError(status) == status = 401 \/ status = 403

IdleRequest ==
  [pc |-> "idle", endpoint |-> "", header |-> NoHeader,
   cancelled |-> FALSE,
   responded |-> FALSE, status |-> 0, body |-> NoBody,
   rejected |-> FALSE, message |-> ""]

\* A response was handled by request and its caller has not continued yet:
\* the caller continues before any other task.
ApiBusy == \E r \in Requests : requests[r].pc = "handled"

NextRequest(r) ==
  /\ requests[r].pc = "idle"
  /\ \A q \in Requests : q < r => requests[q].pc # "idle"

NoUser == [data |-> FALSE, error |-> FALSE]

\* isLoading of the query ['currentUser']: its first fetch is under way.
isLoading ==
  /\ ~currentUser.data
  /\ ~currentUser.error
  /\ \E r \in Requests :
       /\ requests[r].endpoint = "/auth/me"
       /\ requests[r].pc \in {"sent", "handled"}
       /\ ~requests[r].cancelled

\* A mutant of ProtectedRoute: no test of isAuthenticated.
ProtectedRouteNoCheck == IF isLoading THEN "spinner" ELSE "page"

\* What ProtectedRoute renders for the path of a page.
ProtectedRoute ==
  IF isLoading THEN "spinner"
  ELSE IF ~isAuthenticated THEN "Navigate /auth"
  ELSE "page"

\* What the route /auth renders.
AuthRoute == IF isAuthenticated THEN "Navigate /" ELSE "AuthPage"

ApiIdle ==
  /\ storageMode = "ok"
  /\ localStorage = NoToken
  /\ token = NoToken
  /\ requests = [r \in Requests |-> IdleRequest]
  /\ isAuthenticated = FALSE
  /\ currentUser = NoUser
  /\ effectDue = FALSE

\* The page is loaded: the ApiClient is constructed and AuthProvider mounts,
\* with the token of an earlier session in local storage or none.
ApiInit ==
  /\ storageMode \in StorageModes
  /\ localStorage \in (IF storageMode = "blocked" THEN {NoToken} ELSE {NoToken, StoredToken})
  /\ token = GetStoredToken
  /\ requests = [r \in Requests |-> IdleRequest]
  /\ isAuthenticated = (GetStoredToken # NoToken)
  /\ currentUser = NoUser
  /\ effectDue = TRUE

\* request, up to `await fetch(url, config)`.
SendRequest(r, endpoint) ==
  /\ ~ApiBusy
  /\ NextRequest(r)
  /\ requests' = [requests EXCEPT ![r] =
       [IdleRequest EXCEPT !.pc = "sent", !.endpoint = endpoint,
                           !.header = AuthorizationHeader(token)]]
  /\ UNCHANGED <<storageMode, localStorage, token, isAuthenticated, currentUser, effectDue>>
  /\ UNCHANGED <<toggleVars, dateVars, timeVars, viewVars>>

\* login of AuthProvider, up to the await of the API call (register is the
\* same code with the endpoint /auth/register); the route /auth shows the
\* form while isAuthenticated is false.
Login(r) ==
  /\ ~isAuthenticated
  /\ SendRequest(r, "/auth/login")

\* The queryFn of ['currentUser'], enabled while local storage holds a token.
GetCurrentUser(r) ==
  /\ GetStoredToken # NoToken
  /\ \A q \in Requests : ~(requests[q].pc = "sent" /\ requests[q].endpoint = "/auth/me"
                            /\ ~requests[q].cancelled)
  /\ SendRequest(r, "/auth/me")

\* Any other endpoint, called by the pages behind ProtectedRoute.
CallApi(r) ==
  /\ isAuthenticated
  /\ SendRequest(r, "/habits")

\* request, from the response on: the body is read, a status that is not ok
\* removes the token if it is 401 or 403 and throws, an ok one returns the data.
Respond(r, status, body) ==
  /\ ~ApiBusy
  /\ requests[r].pc = "sent"
  /\ LET data == ResponseJson(body)
         ok == ResponseOk(status)
         remove == ~ok /\ IsAuthError(status)
     IN  /\ requests' = [requests EXCEPT ![r] =
               [@ EXCEPT !.pc = "handled", !.responded = TRUE, !.status = status,
                         !.body = body, !.rejected = ~ok,
                         !.message = IF ok THEN "" ELSE ErrorMessage(data)]]
         /\ token' = IF remove THEN NoToken ELSE token
         /\ localStorage' = IF remove THEN StoredAfterRemove ELSE localStorage
  /\ UNCHANGED <<storageMode, isAuthenticated, currentUser, effectDue>>
  /\ UNCHANGED <<toggleVars, dateVars, timeVars, viewVars>>

\* fetch rejects (no response): request rejects with the error of fetch.
FetchFails(r) ==
  /\ ~ApiBusy
  /\ requests[r].pc = "sent"
  /\ requests' = [requests EXCEPT ![r] =
       [@ EXCEPT !.pc = "handled", !.rejected = TRUE, !.message = "Failed to fetch"]]
  /\ UNCHANGED <<storageMode, localStorage, token, isAuthenticated, currentUser, effectDue>>
  /\ UNCHANGED <<toggleVars, dateVars, timeVars, viewVars>>

\* login after the await: the token of response.data is stored.
\* It throws, and stores nothing, when the call rejected or gave no data.
ContinueLogin(r) ==
  /\ requests[r].pc = "handled"
  /\ requests[r].endpoint = "/auth/login"
  /\ IF ~requests[r].rejected /\ requests[r].body.kind = "json-data"
     THEN /\ token' = requests[r].body.token
          /\ localStorage' = StoredAfterSet(requests[r].body.token)
          /\ isAuthenticated' = TRUE
          /\ currentUser' = [data |-> TRUE, error |-> FALSE]
          /\ effectDue' = TRUE
     ELSE UNCHANGED <<token, localStorage, isAuthenticated, currentUser, effectDue>>
  /\ requests' = [requests EXCEPT ![r] = IdleRequest]
  /\ UNCHANGED storageMode
  /\ UNCHANGED <<toggleVars, dateVars, timeVars, viewVars>>

\* The query ['currentUser'] takes the outcome of its queryFn (retry: false);
\* the outcome of a query that logout cleared is dropped.
ContinueCurrentUser(r) ==
  /\ requests[r].pc = "handled"
  /\ requests[r].endpoint = "/auth/me"
  /\ IF requests[r].cancelled
     THEN UNCHANGED <<currentUser, effectDue>>
     ELSE /\ currentUser' =
               IF requests[r].rejected
               THEN [currentUser EXCEPT !.error = TRUE]
               ELSE [data |-> requests[r].body.kind # "json-null", error |-> FALSE]
          /\ effectDue' = TRUE
  /\ requests' = [requests EXCEPT ![r] = IdleRequest]
  /\ UNCHANGED <<storageMode, localStorage, token, isAuthenticated>>
  /\ UNCHANGED <<toggleVars, dateVars, timeVars, viewVars>>

\* The caller of any other endpoint: nothing of this state is touched.
ContinueCall(r) ==
  /\ requests[r].pc = "handled"
  /\ requests[r].endpoint = "/habits"
  /\ requests' = [requests EXCEPT ![r] = IdleRequest]
  /\ UNCHANGED <<storageMode, localStorage, token, isAuthenticated, currentUser, effectDue>>
  /\ UNCHANGED <<toggleVars, dateVars, timeVars, viewVars>>

\* logout of AuthProvider; queryClient.clear() removes the queries.
Logout ==
  /\ ~ApiBusy
  /\ isAuthenticated
  /\ token' = NoToken
  /\ localStorage' = StoredAfterRemove
  /\ isAuthenticated' = FALSE
  /\ currentUser' = NoUser
  /\ effectDue' = (effectDue \/ currentUser # NoUser)
  /\ requests' = [r \in Requests |->
       IF requests[r].endpoint = "/auth/me"
       THEN [requests[r] EXCEPT !.cancelled = TRUE] ELSE requests[r]]
  /\ UNCHANGED storageMode
  /\ UNCHANGED <<toggleVars, dateVars, timeVars, viewVars>>

\* The effect of AuthProvider on [user, error, isLoading].
AuthEffect ==
  /\ ~ApiBusy
  /\ effectDue
  /\ effectDue' = FALSE
  /\ IF GetStoredToken # NoToken
     THEN IF currentUser.error
          THEN /\ isAuthenticated' = FALSE
               /\ token' = NoToken
               /\ localStorage' = StoredAfterRemove
          ELSE /\ isAuthenticated' = (currentUser.data \/ isAuthenticated)
               /\ UNCHANGED <<token, localStorage>>
     ELSE /\ isAuthenticated' = FALSE
          /\ UNCHANGED <<token, localStorage>>
  /\ UNCHANGED <<storageMode, requests, currentUser>>
  /\ UNCHANGED <<toggleVars, dateVars, timeVars, viewVars>>

ApiNext ==
  \/ \E r \in Requests : Login(r)
  \/ \E r \in Requests : GetCurrentUser(r)
  \/ \E r \in Requests : CallApi(r)
  \/ \E r \in Requests, status \in Statuses, body \in Bodies : Respond(r, status, body)
  \/ \E r \in Requests : FetchFails(r)
  \/ \E r \in Requests : ContinueLogin(r)
  \/ \E r \in Requests : ContinueCurrentUser(r)
  \/ \E r \in Requests : ContinueCall(r)
  \/ Logout
  \/ AuthEffect

\* ------------------------------------- completion mutations of the views
MaxCachedHabits == 1

CachedHabits == 1..MaxCachedHabits

\* habit.id as it stands in a query key.
HabitKey(h) == "habit-" \o ToString(h)

\* The components that own a mutation calling api.completeHabit.
Views == {"HabitsPage", "HabitCard", "CalendarPage", "HabitCalendar"}

\* The query keys whose data holds the completion of habits for today: of
\* every habit (the first two), or of the habit their second element names.
CompletionQueries ==
  {<<"all-habit-completions", "today">>, <<"today-completions", "today">>}
    \cup { <<name, HabitKey(h)>> :
             name \in {"habit-completions", "habit-completions-14days",
                       "habit-calendar", "calendar"},
             h \in CachedHabits }

CachedQueries == CompletionQueries \cup {<<"stats">>}

ShowsCompletionOf(key, h) ==
  /\ key \in CompletionQueries
  /\ key[1] \in {"all-habit-completions", "today-completions"} \/ key[2] = HabitKey(h)

\* The filter { queryKey } matches the keys it is a prefix of.
MatchesQueryKey(filter, key) ==
  /\ Len(filter) <= Len(key)
  /\ \A i \in 1..Len(filter) : filter[i] = key[i]

\* The filters of the invalidateQueries calls in onSuccess of each view.
OnSuccessFilters(view, h) ==
  CASE view = "HabitsPage" -> {}
    [] view = "HabitCard" ->
         {<<"habit-completions", HabitKey(h)>>, <<"habit-stats", HabitKey(h)>>,
          <<"calendar">>, <<"stats">>}
    [] view = "CalendarPage" ->
         {<<"habit-calendar">>, <<"habit-completions">>, <<"habit-stats">>, <<"stats">>}
    [] view = "HabitCalendar" -> {<<"calendar">>, <<"stats">>}

\* The filters of the invalidateQueries calls in onSettled of each view.
OnSettledFilters(view) ==
  IF view = "HabitsPage"
  THEN {<<"all-habit-completions", "today">>, <<"habits">>, <<"stats">>}
  ELSE {}

\* queryClient.invalidateQueries for each filter: isInvalidated of the
\* matching queries becomes true.
invalidateQueries(isInvalidated, filters) ==
  [key \in DOMAIN isInvalidated |->
     isInvalidated[key] \/ \E filter \in filters : MatchesQueryKey(filter, key)]

IdleViewMutation == [status |-> "idle", view |-> "", habitId |-> 0]

\* ------------------------------------------- groups of the habits list
MaxListed == 2

ScheduleTypes == {"daily", "weekly", "specific_days"}

\* What the grouping reads of a habit: schedule.type, isActive, whether the
\* search term and the selected category match it, isHabitCompletedToday.
ListedHabitValues ==
  [scheduleType : ScheduleTypes, isActive : BOOLEAN,
   matchesSearch : BOOLEAN, matchesCategory : BOOLEAN, completedToday : BOOLEAN]

\* The indices of the entries that pass the test of a filter, in order, keep
\* being the outcome of the test for each entry: Array.filter.
FilterIndices(keep) ==
  SelectSeq([i \in 1..Len(keep) |-> i], LAMBDA i : keep[i])

InFilteredHabits(h) == h.matchesSearch /\ h.matchesCategory

InDailyHabits(h) ==
  InFilteredHabits(h) /\ h.scheduleType = "daily" /\ h.isActive /\ ~h.completedToday

InWeeklyHabits(h) ==
  InFilteredHabits(h) /\ h.scheduleType = "weekly" /\ h.isActive /\ ~h.completedToday

InCompletedHabits(h) == InFilteredHabits(h) /\ h.isActive /\ h.completedToday

InArchivedHabits(h) == InFilteredHabits(h) /\ ~h.isActive

NoGroups ==
  [rendered |-> FALSE, dailyHabits |-> <<>>, weeklyHabits |-> <<>>,
   completedHabits |-> <<>>, archivedHabits |-> <<>>]

HabitGroups(list) ==
  [rendered |-> TRUE,
   dailyHabits |-> FilterIndices([i \in 1..Len(list) |-> InDailyHabits(list[i])]),
   weeklyHabits |-> FilterIndices([i \in 1..Len(list) |-> InWeeklyHabits(list[i])]),
   completedHabits |-> FilterIndices([i \in 1..Len(list) |-> InCompletedHabits(list[i])]),
   archivedHabits |-> FilterIndices([i \in 1..Len(list) |-> InArchivedHabits(list[i])])]

ViewIdle ==
  /\ queryCache = [key \in CachedQueries |-> FALSE]
  /\ viewMutation = IdleViewMutation
  /\ listedHabits = <<>>
  /\ groups = NoGroups

\* Every query is cached and fresh; no completion mutation has run.
InvalidateInit == ViewIdle

\* completeHabitMutation.mutate of a view, for today.
CompleteHabitFrom(view, h) ==
  /\ viewMutation.status # "pending"
  /\ viewMutation' = [status |-> "pending", view |-> view, habitId |-> h]
  /\ UNCHANGED <<queryCache, listedHabits, groups>>
  /\ UNCHANGED <<toggleVars, dateVars, timeVars, apiVars>>

\* The request resolved: onSuccess, then onSettled.
CompleteHabitSucceeds ==
  /\ viewMutation.status = "pending"
  /\ viewMutation' = [viewMutation EXCEPT !.status = "success"]
  /\ queryCache' =
       invalidateQueries(
         invalidateQueries(queryCache,
                           OnSuccessFilters(viewMutation.view, viewMutation.habitId)),
         OnSettledFilters(viewMutation.view))
  /\ UNCHANGED <<listedHabits, groups>>
  /\ UNCHANGED <<toggleVars, dateVars, timeVars, apiVars>>

\* The request rejected: onError, then onSettled.
CompleteHabitFails ==
  /\ viewMutation.status = "pending"
  /\ viewMutation' = [viewMutation EXCEPT !.status = "error"]
  /\ queryCache' = invalidateQueries(queryCache, OnSettledFilters(viewMutation.view))
  /\ UNCHANGED <<listedHabits, groups>>
  /\ UNCHANGED <<toggleVars, dateVars, timeVars, apiVars>>

\* An invalidated query was fetched again.
RefetchQuery(key) ==
  /\ queryCache[key]
  /\ queryCache' = [queryCache EXCEPT ![key] = FALSE]
  /\ UNCHANGED <<viewMutation, listedHabits, groups>>
  /\ UNCHANGED <<toggleVars, dateVars, timeVars, apiVars>>

InvalidateNext ==
  \/ \E view \in Views, h \in CachedHabits : CompleteHabitFrom(view, h)
  \/ CompleteHabitSucceeds
  \/ CompleteHabitFails
  \/ \E key \in CachedQueries : RefetchQuery(key)

\* The habits list view is about to render some habits.data.
GroupsInit ==
  /\ queryCache = [key \in CachedQueries |-> FALSE]
  /\ viewMutation = IdleViewMutation
  /\ listedHabits \in UNION { [1..n -> ListedHabitValues] : n \in 0..MaxListed }
  /\ groups = NoGroups

\* The render of HabitsPage, from filteredHabits to the four groups.
RenderHabitGroups ==
  /\ ~groups.rendered
  /\ groups' = HabitGroups(listedHabits)
  /\ UNCHANGED <<queryCache, viewMutation, listedHabits>>
  /\ UNCHANGED <<toggleVars, dateVars, timeVars, apiVars>>

GroupsNext == RenderHabitGroups

\* ------------------------------------------------------- specifications
\* The toggles of the habits list view.
Init == ToggleInit /\ DateIdle /\ TimeIdle /\ ApiIdle /\ ViewIdle

Next == ToggleNext

Spec == Init /\ [][Next]_vars

\* The toggles of the habits list view, the view left and entered once more.
RevisitNext == ToggleNext \/ UnmountAgain

SpecRevisit == Init /\ [][RevisitNext]_vars

\* The "today" of the habits list view, over the clock and the timezones.
InitDate == DateInit /\ ToggleInit /\ TimeIdle /\ ApiIdle /\ ViewIdle

SpecDate == InitDate /\ [][DateNext]_vars

\* Calls of calculateTimeRemaining, over deadlines and clock reads.
InitTime == TimeInit /\ ToggleInit /\ DateIdle /\ ApiIdle /\ ViewIdle

SpecTime == InitTime /\ [][TimeNext]_vars

\* The formatting and urgency functions, over TimeRemaining values.
InitFormat == FormatInit /\ ToggleInit /\ DateIdle /\ ApiIdle /\ ViewIdle

SpecFormat == InitFormat /\ [][FormatNext]_vars

\* The API client and the authentication context.
InitApi == ApiInit /\ ToggleInit /\ DateIdle /\ TimeIdle /\ ViewIdle

SpecApi == InitApi /\ [][ApiNext]_vars

\* The completion mutations of the four views, over the cached queries.
InitInvalidate == InvalidateInit /\ ToggleInit /\ DateIdle /\ TimeIdle /\ ApiIdle

SpecInvalidate == InitInvalidate /\ [][InvalidateNext]_vars

\* The grouping of the habits list view, over lists of habits.
InitGroups == GroupsInit /\ ToggleInit /\ DateIdle /\ TimeIdle /\ ApiIdle

SpecGroups == InitGroups /\ [][GroupsNext]_vars

\* ------------------------------------------------------------ properties
OnMutateStep(m) == mut[m].pc = "onMutate" /\ mut'[m].pc = "mutationFn"
OnErrorStep(m) == mut[m].pc = "err" /\ mut'[m].pc = "errored"
OnSettledStep(m) == mut[m].pc \in {"ok", "errored"} /\ mut'[m].pc = "settled"
FetchCompleteStep == mut' = mut /\ fetch.active /\ fetch.got /\ ~fetch'.active

HasEntry(data, h) == data.defined /\ find(data.list, h) # 0

\* The cached completion of habit h (undefined when the list has no entry of h).
CompletionOf(data, h) ==
  IF HasEntry(data, h) THEN data.list[find(data.list, h)].completion ELSE NoCompletion

\* What a view reads of habit h in the cache: whether the list has an entry, and
\* the completion of the entry.
EntryView(data, h) == [present |-> HasEntry(data, h), completion |-> CompletionOf(data, h)]

SingleToggle(m) == \A n \in Mutations : n # m => mut[n].pc = "idle"

UniqueHabitIds(data) ==
  \A i, j \in 1..Len(data.list) : data.list[i].habitId = data.list[j].habitId => i = j

\* C1 as stated: for a single toggle whose call rejected, after onError the
\* cached list equals the snapshot onMutate took, whatever the snapshot was.
C1_RollbackEqualsSnapshot ==
  \A m \in Mutations :
    (mut[m].pc = "errored" /\ SingleToggle(m))
      => cache = mut[m].context.previousCompletions

\* C1 amended: when onMutate found a cached list, then after onError the
\* cache equals that snapshot exactly (every entry, the other habits' too);
\* this for every toggle, overlapping ones included.
C1_RollbackRestoresDefinedSnapshot ==
  \A m \in Mutations :
    (mut[m].pc = "errored" /\ mut[m].context.previousCompletions.defined)
      => cache = mut[m].context.previousCompletions

\* C1 witness: a single toggle was rolled back to a snapshot of two habits.
C1_Witness ==
  \E m \in Mutations :
    /\ mut[m].pc = "errored" /\ SingleToggle(m)
    /\ mut[m].context.previousCompletions.defined
    /\ Len(mut[m].context.previousCompletions.list) = 2
    /\ cache = mut[m].context.previousCompletions

\* The relation the speculative write of (h, c) establishes between the list
\* before (old) and after (new).
SpeculativeWriteRelation(old, new, h, c) ==
  IF ~old.defined THEN new = old
  ELSE /\ new.defined
       /\ IF \E i \in 1..Len(old.list) : old.list[i].habitId = h
          THEN /\ Len(new.list) = Len(old.list)
               /\ \A i \in 1..Len(old.list) :
                    IF old.list[i].habitId = h
                    THEN /\ new.list[i].habitId = h
                         /\ new.list[i].completion.exists
                         /\ new.list[i].completion.completed = c
                         /\ new.list[i].completion.date = old.list[i].completion.date
                    ELSE new.list[i] = old.list[i]
          ELSE new.list =
                 old.list \o << [habitId |-> h,
                                 completion |-> [exists |-> TRUE, completed |-> c,
                                                 date |-> "today"]] >>

\* C2: right after onMutate the cached list is the snapshot with the entry of
\* the habit set to the requested value, its other fields kept, or with a new
\* entry {habitId, completion: {completed, date: today}} appended when the
\* snapshot had none; the other habits' entries are the snapshot's.  (With no
\* list cached there is nothing to rewrite and nothing is written.)
C2_SpeculativeWrite ==
  \A m \in Mutations :
    mut[m].pc = "mutationFn"
      => SpeculativeWriteRelation(mut[m].context.previousCompletions, cache,
                                  mut[m].habitId, mut[m].completed)

\* C2 witness: a speculative write appended an entry to a list that holds
\* another habit's entry.
C2_Witness ==
  \E m \in Mutations :
    /\ mut[m].pc = "mutationFn"
    /\ mut[m].context.previousCompletions.defined
    /\ Len(mut[m].context.previousCompletions.list) = 1
    /\ Len(cache.list) = 2

\* C3 as stated: no step of a toggle's outcome (its onError, its onSettled)
\* changes the cached entry of another habit whose toggle is in flight.
C3_OverlappingTogglesIndependent ==
  [][\A a, b \in Mutations :
       ( /\ a # b
         /\ OnErrorStep(a) \/ OnSettledStep(a)
         /\ mut[b].pc \in {"sent", "ok", "err"}
         /\ mut[a].habitId # mut[b].habitId )
       => EntryView(cache', mut[b].habitId) = EntryView(cache, mut[b].habitId)]_vars

\* C4: the snapshot of a toggle is the cache as onMutate finds it, the
\* speculative values of the toggles still in flight included, and the
\* onError of the toggle puts that snapshot back whatever the other toggles
\* have come to.
C4_StaleSnapshotRestored ==
  [][\A m \in Mutations :
       /\ OnMutateStep(m) => mut'[m].context.previousCompletions = cache
       /\ (OnErrorStep(m) /\ mut[m].context.previousCompletions.defined)
            => cache' = mut[m].context.previousCompletions]_vars

\* C4 witness: a second toggle of a habit was made while the first was in
\* flight (not yet applied by the server); its snapshot held the first one's
\* speculative value; it failed, and the restored value is not the server's.
C4_Witness ==
  \E m1, m2 \in Mutations :
    /\ m1 < m2
    /\ mut[m1].habitId = mut[m2].habitId
    /\ mut[m1].pc \in {"sent", "err"}
    /\ mut[m2].pc = "errored"
    /\ ~CompletionOf(mut[m1].context.previousCompletions, mut[m1].habitId).completed
    /\ mut[m1].completed
    /\ CompletionOf(mut[m2].context.previousCompletions, mut[m2].habitId).completed
    /\ CompletionOf(cache, mut[m2].habitId).completed
    /\ ~server[mut[m2].habitId].completed

\* C5: a toggle whose request was issued, answered or handled has made its
\* speculative write before.
C5_WriteBeforeResponse ==
  \A m \in Mutations :
    (mut[m].pc \in {"sent", "ok", "err", "errored", "settled"} \/ posted[m] > 0)
      => mut[m].wrote

\* C5 witness: the request is out, unanswered, and the cache already shows the
\* requested value.
C5_Witness ==
  \E m \in Mutations :
    /\ mut[m].pc = "sent"
    /\ mut[m].wrote
    /\ mut[m].completed
    /\ ~CompletionOf(mut[m].context.previousCompletions, mut[m].habitId).completed
    /\ CompletionOf(cache, mut[m].habitId).completed

C7_ConfettiOncePerCompletion ==
  \A m \in Mutations :
    confetti[m] = IF mut[m].pc \in {"idle", "onMutate"} THEN 0
                  ELSE IF mut[m].completed THEN 1 ELSE 0

\* C7 witness: confetti was fired for a toggle that failed and was rolled back.
C7_Witness ==
  \E m \in Mutations :
    /\ mut[m].pc = "errored"
    /\ mut[m].completed
    /\ confetti[m] = 1
    /\ ~CompletionOf(cache, mut[m].habitId).completed

\* C8: the cached list, and every snapshot of it, has at most one entry per
\* habit id.
C8_OneEntryPerHabit ==
  /\ UniqueHabitIds(cache)
  /\ \A m \in Mutations : UniqueHabitIds(mut[m].context.previousCompletions)

\* C8 witness: after an earlier toggle settled, a toggle that appended an
\* entry was rolled back, and a two-entry list was cached in between.
C8_Witness ==
  \E m \in Mutations :
    /\ mut[m].pc = "settled"
    /\ \E n \in Mutations :
         /\ mut[n].pc = "errored"
         /\ cache.defined
         /\ Len(cache.list) = 2

\* The calendar date of the instant on the client's wall clock.
LocalCalendarDate(instant) == (instant + tzOffset) \div HoursPerDay

\* C9 as stated: the `today` of a render, and the date a toggle sends, is the
\* client-local calendar date of the render, at every clock time and in
\* every timezone.
C9_TodayIsClientLocalDate ==
  /\ today # NoDate => today = LocalCalendarDate(renderedAt)
  /\ sentDate # NoDate => \E at \in FirstInstant..clock : sentDate = LocalCalendarDate(at)

\* C10: a call whose deadline lies before the clock it is evaluated at (the
\* first read, and so the read of isPast too) returns isOverdue = true and 0
\* for days, hours, minutes, seconds and totalMinutes.
C10_OverdueAllZero ==
  (timePc = "returned" /\ deadlineMs < isPastNowMs)
    => /\ timeRemaining.isOverdue
       /\ timeRemaining.days = 0
       /\ timeRemaining.hours = 0
       /\ timeRemaining.minutes = 0
       /\ timeRemaining.seconds = 0
       /\ timeRemaining.totalMinutes = 0

\* C10 witness: a deadline more than a day before now was evaluated.
C10_Witness ==
  /\ timePc = "returned"
  /\ nowMs - deadlineMs > MsPerDay
  /\ timeRemaining.isOverdue
  /\ timeRemaining.totalMinutes = 0

\* C11: a call whose deadline lies a whole number N > 0 of minutes after now
\* returns isOverdue = false, totalMinutes = N and a decomposition with
\* days * 1440 + hours * 60 + minutes = N.
C11_WholeMinutesDecomposition ==
  (timePc = "returned" /\ deadlineMs > nowMs /\ (deadlineMs - nowMs) % MsPerMinute = 0)
    => LET N == (deadlineMs - nowMs) \div MsPerMinute
       IN  /\ ~timeRemaining.isOverdue
           /\ timeRemaining.totalMinutes = N
           /\ timeRemaining.days * 1440 + timeRemaining.hours * 60
                + timeRemaining.minutes = N

\* C11 witness: a deadline a whole number of minutes, more than a day, after
\* now was decomposed with hours and minutes that are not 0.
C11_Witness ==
  /\ timePc = "returned"
  /\ deadlineMs > nowMs
  /\ (deadlineMs - nowMs) % MsPerMinute = 0
  /\ timeRemaining.days >= 1
  /\ timeRemaining.hours = 23
  /\ timeRemaining.minutes = 59

\* C12 as stated: the result is the one every evaluation with the same now and
\* the same deadline returns, whatever time passes inside the call, and the
\* deadline is found overdue exactly when it lies before that now.
C12_DeterministicInNowAndDeadline ==
  timePc = "returned"
    => /\ \A lag \in 0..MaxLagMs :
            timeRemaining = calculateTimeRemaining(deadlineMs, nowMs, nowMs + lag)
       /\ timeRemaining.isOverdue = (deadlineMs < nowMs)

\* The text the formatting policy gives a TimeRemaining, case by case.
FormattingPolicy(t) ==
  IF t.isOverdue THEN "Overdue"
  ELSE IF t.days = 1 THEN ToString(t.hours) \o "h " \o ToString(t.minutes) \o "m"
  ELSE IF t.days > 1 THEN ToString(t.days) \o "d " \o ToString(t.hours) \o "h"
  ELSE IF t.days = 0 /\ t.hours >= 1
       THEN ToString(t.hours) \o "h " \o ToString(t.minutes) \o "m"
  ELSE IF t.hours = 0 /\ t.minutes >= 1
       THEN ToString(t.minutes) \o "m " \o ToString(t.seconds) \o "s"
  ELSE ToString(t.seconds) \o "s"

\* C13: formatTimeRemaining returns the text of the formatting policy for
\* every TimeRemaining (fields that are natural numbers).
C13_FormattingPolicy ==
  formatted.called => formatted.value = FormattingPolicy(timeRemaining)

\* C13 witness: a value of one day was formatted as hours and minutes.
C13_Witness ==
  /\ formatted.called
  /\ ~timeRemaining.isOverdue
  /\ timeRemaining.days = 1
  /\ formatted.value = "23h 59m"

\* C14: formatTimeRemaining of a TimeRemaining that is not overdue is not the
\* empty string.
C14_NeverEmpty ==
  (formatted.called /\ ~timeRemaining.isOverdue) => formatted.value # ""

\* C14 witness: a value that is not overdue and whose fields are all 0 was
\* formatted as "0s".
C14_Witness ==
  /\ formatted.called
  /\ ~timeRemaining.isOverdue
  /\ timeRemaining.days = 0 /\ timeRemaining.hours = 0
  /\ timeRemaining.minutes = 0 /\ timeRemaining.seconds = 0
  /\ formatted.value = "0s"

SameSide(a, b, thresholds) == \A t \in thresholds : (a <= t) = (b <= t)

WithTotalMinutes(t, m) == [t EXCEPT !.totalMinutes = m]

\* For the input of the state, not overdue: another total gets the same color
\* exactly when it lies on the same side of the thresholds.
ColorStepsAt(thresholds) ==
  (urgencyColor.called /\ ~timeRemaining.isOverdue)
    => \A m \in TotalMinutesValues :
         SameSide(timeRemaining.totalMinutes, m, thresholds)
           = (urgencyColor.value = getTimeUrgencyColor(WithTotalMinutes(timeRemaining, m)))

\* The same of the badge variant.
BadgeStepsAt(thresholds) ==
  (badgeVariant.called /\ ~timeRemaining.isOverdue)
    => \A m \in TotalMinutesValues :
         SameSide(timeRemaining.totalMinutes, m, thresholds)
           = (badgeVariant.value = getUrgencyBadgeVariant(WithTotalMinutes(timeRemaining, m)))

\* C17 as stated: the color and the badge variant each change exactly at 60,
\* 1440 and 4320 minutes.
C17_BothStepAtThreeThresholds ==
  /\ ColorStepsAt({60, 1440, 4320})
  /\ BadgeStepsAt({60, 1440, 4320})

\* C17 amended: for inputs that are not overdue the color changes exactly at
\* 60, 1440 and 4320 minutes, and the badge variant exactly at 60 and 1440
\* minutes (it is the same on both sides of 4320).
C17_ColorThreeBadgeTwoThresholds ==
  /\ ColorStepsAt({60, 1440, 4320})
  /\ BadgeStepsAt({60, 1440})

\* C17 witness: a total of 4320 minutes was classified: yellow, as 4319 is,
\* and secondary, as 4321 is too.
C17_Witness ==
  /\ ~timeRemaining.isOverdue
  /\ timeRemaining.totalMinutes = 4320
  /\ urgencyColor = Returned("text-yellow-600")
  /\ badgeVariant = Returned("secondary")

\* ------------------------------------------- API client, authentication
\* The step of request r up to its fetch.
SendStep(r) == requests[r].pc = "idle" /\ requests'[r].pc = "sent"

\* C18, as stated: every request sent carries Authorization: Bearer <token>,
\* <token> being the token in local storage at the time of the request.
C18_EveryRequestCarriesStoredToken ==
  [][\A r \in Requests :
       SendStep(r) =>
         requests'[r].header = [present |-> TRUE, value |-> "Bearer " \o localStorage]]_vars

\* C18, amended: a request sent while the client holds a token carries
\* Authorization: Bearer <that token>, a request sent while it holds none
\* carries no Authorization header, and the token the client holds is the one
\* in local storage as long as local storage accepts reads and writes.
C18_RequestCarriesClientToken ==
  [][/\ storageMode = "ok" => token = localStorage
     /\ \A r \in Requests :
          SendStep(r) =>
            /\ requests'[r].header.present = (token # NoToken)
            /\ token # NoToken => requests'[r].header.value = "Bearer " \o token]_vars

\* A request is in flight with the token a login stored after the page load.
C18_Witness ==
  \E r \in Requests :
    /\ requests[r].pc = "sent"
    /\ requests[r].endpoint = "/habits"
    /\ token = IssuedToken
    /\ localStorage = IssuedToken
    /\ requests[r].header = [present |-> TRUE, value |-> "Bearer t2"]

\* The step of request r from its response to its return or throw.
RespondStep(r) ==
  requests[r].pc = "sent" /\ requests'[r].pc = "handled" /\ requests'[r].responded

\* C19: a response removes the token, in memory and in local storage, if and
\* only if its status is 401 or 403: the handling of such a response removes
\* it, the handling of any other status leaves it unchanged, and apart from
\* logout nothing else that follows a response takes the token away.
C19_TokenRemovedIffAuthError ==
  [][/\ \A r \in Requests :
          RespondStep(r) =>
            IF requests'[r].status \in {401, 403}
            THEN token' = NoToken /\ GetStoredToken' = NoToken
            ELSE UNCHANGED <<token, localStorage>>
     /\ (token # NoToken /\ token' = NoToken) =>
          \/ Logout
          \/ \E r \in Requests : RespondStep(r) /\ requests'[r].status \in {401, 403}]_vars

\* A call of request that handled a response and has thrown or returned.
HandledResponse(r) == requests[r].pc = "handled" /\ requests[r].responded

\* C20: a response whose status is not 2xx makes request reject, with the
\* server's message when the body is JSON with a message and with a fixed
\* literal when the body is not parseable JSON; a 2xx response does not
\* make it reject.
C20_NonOkRejectsWithMessage ==
  \A r \in Requests :
    HandledResponse(r) =>
      IF requests[r].status \in 200..299
      THEN ~requests[r].rejected
      ELSE /\ requests[r].rejected
           /\ requests[r].body.kind = "json-message" =>
                requests[r].message = requests[r].body.message
           /\ requests[r].body.kind = "not-json" =>
                requests[r].message = "Server error"

\* A 401 whose JSON body carries the server's message was handled.
C20_Witness ==
  \E r \in Requests :
    /\ HandledResponse(r)
    /\ requests[r].rejected
    /\ requests[r].status = 401
    /\ requests[r].body.kind = "json-message"
    /\ requests[r].message = "Invalid credentials"

\* AuthProvider is at rest: its effect has run and no caller of request is
\* waiting to continue.
AuthAtRest == ~effectDue /\ ~ApiBusy

\* C21: isAuthenticated = true implies that a token is persisted in local
\* storage, after any sequence of logins, logouts, current-user query
\* results and API responses (read once AuthProvider is at rest).
C21_AuthenticatedImpliesTokenPersisted ==
  (AuthAtRest /\ isAuthenticated) => GetStoredToken # NoToken

\* ------------------------------------------------- invalidation, groups
\* The step of a completion mutation from its request to success.
CompleteSuccessStep == viewMutation.status = "pending" /\ viewMutation'.status = "success"

\* C22: after a successful habit-completion mutation issued from any view,
\* every cached query that shows that habit's completion status, including
\* ['all-habit-completions', today], is marked stale.
C22_SuccessInvalidatesEveryCompletionQuery ==
  [][CompleteSuccessStep =>
       \A key \in CachedQueries :
         ShowsCompletionOf(key, viewMutation.habitId) => queryCache'[key]]_vars

GroupNames == {"dailyHabits", "weeklyHabits", "completedHabits", "archivedHabits"}

\* The groups of the last render that hold the i-th listed habit.
GroupsOf(i) ==
  { g \in GroupNames : \E j \in 1..Len(groups[g]) : groups[g][j] = i }

\* C28: every habit that passes the search and category filter is placed in
\* exactly one of dailyHabits, weeklyHabits, completedHabits, archivedHabits,
\* for every schedule type, active flag and today-completion state.
C28_EveryFilteredHabitInExactlyOneGroup ==
  groups.rendered =>
    \A i \in 1..Len(listedHabits) :
      InFilteredHabits(listedHabits[i]) => Cardinality(GroupsOf(i)) = 1

\* --------------------------------------------- toggles: retry, settling
\* C23: each toggle issues exactly one POST /habits/{id}/complete, when its
\* mutationFn runs, and none after the request was rejected: not before
\* onError, not before onSettled, not after.
C23_ExactlyOnePostPerToggle ==
  \A m \in Mutations :
    posted[m] = IF mut[m].pc \in {"idle", "onMutate", "mutationFn"} THEN 0 ELSE 1

\* C23 witness: a toggle's request was rejected, its rollback has run, and
\* one request was sent for it.
C23_Witness ==
  \E m \in Mutations :
    /\ mut[m].pc = "errored"
    /\ posted[m] = 1

\* The cache shows the value toggle m asked for.
ShowsRequestedValue(data, m) ==
  /\ HasEntry(data, mut[m].habitId)
  /\ CompletionOf(data, mut[m].habitId).completed = mut[m].completed

\* C24, as stated: while the request of a toggle is unanswered the toggle
\* does not settle, the mutation stays pending, and the speculative value
\* stays in the cache (whatever else happens, no other toggle acting).
C24_UnansweredToggleKeepsSpeculativeValue ==
  [][\A m \in Mutations :
       (mut[m].pc = "sent" /\ mut' = mut)
         => /\ InFlight(m)'
            /\ ShowsRequestedValue(cache, m) => ShowsRequestedValue(cache', m)]_vars

\* C24, amended: a toggle whose request is out leaves that state only by a
\* response; until then the mutation is pending, and a step of no mutation
\* invalidates nothing and changes the cache only by completing a refetch of
\* today's completions.
C24_UnansweredToggleStaysPending ==
  [][\A m \in Mutations :
       mut[m].pc = "sent"
         => /\ mut'[m].pc \in {"sent", "ok", "err"}
            /\ mut'[m].pc = "sent" => InFlight(m)'
            /\ mut' = mut =>
                 /\ \A k \in QueryKeys : invalidated'[k] => invalidated[k]
                 /\ ~FetchCompleteStep => cache' = cache]_vars

\* C24 witness: the request of a toggle is unanswered, the view was left and
\* entered again, and the refetch it started has replaced the speculative
\* value by the server's.
C24_Witness ==
  \E m \in Mutations :
    /\ mut[m].pc = "sent"
    /\ mut[m].completed
    /\ mut[m].context.previousCompletions.defined
    /\ remounts = 1
    /\ HasEntry(cache, mut[m].habitId)
    /\ ~ShowsRequestedValue(cache, m)

\* Every toggle made has settled and no fetch of today's completions is
\* running or due, the view being shown.
TogglesAtRest ==
  /\ mounted
  /\ \A m \in Mutations : mut[m].pc \in {"idle", "settled"}
  /\ \E m \in Mutations : mut[m].pc = "settled"
  /\ ~fetch.active
  /\ ~invalidated["all-habit-completions"]

\* C25: once every toggle has settled and the last refetch has completed,
\* the cached list under ['all-habit-completions', today] holds the server's
\* completion of every listed habit.
C25_EventuallyCacheEqualsServer ==
  TogglesAtRest =>
    \A i \in 1..Len(habitsData) :
      CompletionOf(cache, habitsData[i]) = server[habitsData[i]]

ToggleStartStep(m) == mut[m].pc = "idle" /\ mut'[m].pc = "onMutate"

\* C27: while a completion mutation is pending no second toggle, of the
\* same or of another habit, is started from the view.
C27_NoToggleWhilePending ==
  [][\A m \in Mutations :
       ToggleStartStep(m) => \A n \in Mutations : n # m => ~InFlight(n)]_vars

\* ------------------------------------------------------ routes, logout
\* C29: a protected path renders its page only while isAuthenticated is
\* true; with the auth query not loading and isAuthenticated false it
\* redirects to /auth; /auth redirects to / exactly when isAuthenticated is
\* true; the two redirects are never both enabled.
C29_ProtectedRoutesNeedAuthentication ==
  /\ ProtectedRoute = "page" => isAuthenticated
  /\ (~isLoading /\ ~isAuthenticated) => ProtectedRoute = "Navigate /auth"
  /\ AuthRoute = "Navigate /" <=> isAuthenticated
  /\ ~(ProtectedRoute = "Navigate /auth" /\ AuthRoute = "Navigate /")

\* C29 witness: the current-user query failed, the effect of AuthProvider has
\* reset isAuthenticated, and the protected paths redirect to the login page.
C29_Witness ==
  /\ currentUser.error
  /\ ~effectDue
  /\ ~isAuthenticated
  /\ ~isLoading
  /\ ProtectedRoute = "Navigate /auth"
  /\ AuthRoute = "AuthPage"

\* login after the await, its call having returned data.
LoginSuccessStep(r) ==
  /\ requests[r].pc = "handled"
  /\ requests[r].endpoint = "/auth/login"
  /\ ~requests[r].rejected
  /\ requests'[r].pc = "idle"

\* C30: logout leaves no token in memory or in local storage, isAuthenticated
\* false and the current-user query without data; the client gets a token
\* again only by a successful login, and a request sent while it has none
\* carries no Authorization header.
C30_NoTokenAfterLogoutUntilLogin ==
  [][/\ Logout =>
          /\ token' = NoToken
          /\ GetStoredToken' = NoToken
          /\ ~isAuthenticated'
          /\ currentUser' = NoUser
     /\ (token = NoToken /\ token' # NoToken) =>
          \E r \in Requests : LoginSuccessStep(r)
     /\ \A r \in Requests :
          (SendStep(r) /\ token = NoToken) => ~requests'[r].header.present]_vars

\* C30 witness: logout has dropped a current-user fetch that was under way,
\* and a login request was sent after it, without Authorization header.
C30_Witness ==
  /\ token = NoToken
  /\ localStorage = NoToken
  /\ ~isAuthenticated
  /\ currentUser = NoUser
  /\ \E q, r \in Requests :
       /\ requests[q].cancelled
       /\ requests[r].pc = "sent"
       /\ requests[r].endpoint = "/auth/login"
       /\ ~requests[r].header.present

====
